---- MODULE Spec2Model ----
(***************************************************************************)
(* A model of sbsearch: the search-and-classify engine of src/sbsearch.rs  *)
(* (tree walk, keyword matching, level and timestamp inference, ordering,  *)
(* paging over the cache) and the viewer of src/tui/mod.rs and             *)
(* src/tui/event.rs (run loop, key handling, save to file).                *)
(*                                                                         *)
(* Text is modelled character by character: a string is a sequence of      *)
(* one-character strings, so that a substring test, a regular expression   *)
(* and a parse are computed as the code computes them.                     *)
(***************************************************************************)
EXTENDS Integers, Sequences, FiniteSets, TLC

\* ------------------------------------------------------------------ bounds
\* entries per page of the viewer (Tui.page_max_entries), scaled down
PageSize == 2
\* largest offset and limit of a direct search call
MaxOffset == 2
MaxLimit == 2
\* number of direct search calls on one cache
MaxCalls == 3
\* number of page loads of one run of the viewer
MaxLoads == 2
\* values of the wall clock (seconds) that name the save file
MaxClock == 1
\* characters held by the text buffer of the viewer
MaxInput == 1
\* largest selection index followed when the selection leaves the page
MaxSelected == 1
\* number of calls of save_to_file in one run of the viewer
MaxSaves == 1
\* fragments concatenated into an input line of the classifiers
MaxFragments == 3
\* path segments below the bundle root given to included_path
MaxDepth == 3

\* ------------------------------------------------------------------ text
Min(a, b) == IF a <= b THEN a ELSE b

\* s[i..j), 1-based, as a Rust slice line[m.start()..m.end()]
Slice(s, i, j) == SubSeq(s, i, j - 1)

\* p occurs in s at index i
StartsAt(s, p, i) == i + Len(p) - 1 <= Len(s) /\ SubSeq(s, i, i + Len(p) - 1) = p

\* str::contains: p is a substring of s (case-sensitive)
Contains(s, p) == \E i \in 1..(Len(s) + 1) : StartsAt(s, p, i)

\* index of the first occurrence of character c in s at or after i, Len(s)+1 if none
IndexFrom(s, c, i) == IF \E k \in i..Len(s) : s[k] = c
                      THEN CHOOSE k \in i..Len(s) : s[k] = c /\ \A j \in i..(k - 1) : s[j] # c
                      ELSE Len(s) + 1

\* str::split(c).nth(1): the text between the first and the second c
SplitNth1(s, c) == LET a == IndexFrom(s, c, 1)
                       b == IndexFrom(s, c, a + 1)
                   IN  Slice(s, a + 1, b)

RECURSIVE TrimStart(_, _)
TrimStart(s, c) == IF s # <<>> /\ Head(s) = c THEN TrimStart(Tail(s), c) ELSE s

RECURSIVE TrimEnd(_, _)
TrimEnd(s, c) == IF s # <<>> /\ s[Len(s)] = c THEN TrimEnd(SubSeq(s, 1, Len(s) - 1), c) ELSE s

\* str::trim_matches(c)
TrimMatches(s, c) == TrimEnd(TrimStart(s, c), c)

\* the characters \s of the regex crate that occur in the model's text
Whitespace == {" ", "\n", "\t"}

\* ASCII case folding of (?i), for the letters the model's text uses
Lower(c) == CASE c = "E" -> "e" [] c = "R" -> "r" [] c = "O" -> "o" [] OTHER -> c

RECURSIVE Concat(_)
Concat(ss) == IF ss = <<>> THEN <<>> ELSE Head(ss) \o Concat(Tail(ss))

\* all sequences of at most n elements of S
RECURSIVE SeqsUpTo(_, _)
SeqsUpTo(S, n) == IF n = 0 THEN {<<>>}
                  ELSE LET R == SeqsUpTo(S, n - 1)
                       IN  R \cup {Append(r, x) : r \in {q \in R : Len(q) = n - 1}, x \in S}

\* ------------------------------------------------------------------ LevelClassifier
T_level_eq == <<"l", "e", "v", "e", "l", "=">>

T_level_json == <<"\"", "l", "e", "v", "e", "l", "\"", ":", "\"">>

T_err_eq == <<"e", "r", "r", "=">>

T_error_br == <<"[", "e", "r", "r", "o", "r", "]">>

L_error == <<"e", "r", "r", "o", "r">>

L_UNKNOWN == <<"U", "N", "K", "N", "O", "W", "N">>

\* end (exclusive) of the greedy run of characters outside Stop that starts at i
RECURSIVE RunEnd(_, _, _)
RunEnd(s, i, Stop) == IF i <= Len(s) /\ s[i] \notin Stop THEN RunEnd(s, i + 1, Stop) ELSE i

\* matcher_log_level1, level=([^\s]+): the match [start, end) that starts at i, or <<>>
Level1At(s, i) == IF StartsAt(s, T_level_eq, i) /\ RunEnd(s, i + 6, Whitespace) > i + 6
                  THEN <<i, RunEnd(s, i + 6, Whitespace)>>
                  ELSE <<>>

\* matcher_log_level2, "level":"([^"]+)": the match [start, end) that starts at i, or <<>>
Level2At(s, i) == LET e == RunEnd(s, i + 9, {"\""})
                  IN  IF StartsAt(s, T_level_json, i) /\ e > i + 9 /\ e <= Len(s)
                      THEN <<i, e + 1>>
                      ELSE <<>>

\* least element of a non-empty set of integers
MinOf(S) == CHOOSE x \in S : \A y \in S : x <= y

\* Matcher::find for matcher_log_level1: the leftmost match, or <<>>
FindLevel1(s) == LET P == {i \in 1..Len(s) : Level1At(s, i) # <<>>}
                 IN  IF P = {} THEN <<>> ELSE Level1At(s, MinOf(P))

\* Matcher::find for matcher_log_level2: the leftmost match, or <<>>
FindLevel2(s) == LET P == {i \in 1..Len(s) : Level2At(s, i) # <<>>}
                 IN  IF P = {} THEN <<>> ELSE Level2At(s, MinOf(P))

\* matcher_log_level3, err=
Level3Matches(s) == Contains(s, T_err_eq)

\* matcher_log_level4, (?i)\[error\]
Level4Matches(s) == Contains([k \in 1..Len(s) |-> Lower(s[k])], T_error_br)

find_log_level_swapped(line) ==
    LET m1 == FindLevel1(line)
        m2 == FindLevel2(line)
    IN  IF Level3Matches(line) THEN L_error
        ELSE IF m1 # <<>> THEN SplitNth1(Slice(line, m1[1], m1[2]), "=")
        ELSE IF m2 # <<>> THEN TrimMatches(SplitNth1(Slice(line, m2[1], m2[2]), ":"), "\"")
        ELSE IF Level4Matches(line) THEN L_error
        ELSE L_UNKNOWN

find_log_level(line) ==
    LET m1 == FindLevel1(line)
        m2 == FindLevel2(line)
    IN  IF m1 # <<>> THEN SplitNth1(Slice(line, m1[1], m1[2]), "=")
        ELSE IF m2 # <<>> THEN TrimMatches(SplitNth1(Slice(line, m2[1], m2[2]), ":"), "\"")
        ELSE IF Level3Matches(line) THEN L_error
        ELSE IF Level4Matches(line) THEN L_error
        ELSE L_UNKNOWN

\* ------------------------------------------------------------------ TimestampExtractor
Digits == {"0", "1", "2", "3", "4", "5", "6", "7", "8", "9"}

DigitVal(c) == CASE c = "0" -> 0 [] c = "1" -> 1 [] c = "2" -> 2 [] c = "3" -> 3 [] c = "4" -> 4
                 [] c = "5" -> 5 [] c = "6" -> 6 [] c = "7" -> 7 [] c = "8" -> 8 [] c = "9" -> 9

\* \d{n} at s[i..i+n)
AllDigits(s, i, n) == i + n - 1 <= Len(s) /\ \A k \in i..(i + n - 1) : s[k] \in Digits

\* the number written by the n digits at s[i..i+n)
RECURSIVE Num(_, _, _)
Num(s, i, n) == IF n = 0 THEN 0 ELSE 10 * Num(s, i, n - 1) + DigitVal(s[i + n - 1])

\* \d{4}-\d{2}-\d{2}<sep>\d{2}:\d{2}:\d{2} at s[i..i+19)
DateTimeAt(s, i, sep) ==
    /\ i + 18 <= Len(s)
    /\ AllDigits(s, i, 4) /\ s[i + 4] = "-" /\ AllDigits(s, i + 5, 2) /\ s[i + 7] = "-"
    /\ AllDigits(s, i + 8, 2) /\ s[i + 10] = sep
    /\ AllDigits(s, i + 11, 2) /\ s[i + 13] = ":" /\ AllDigits(s, i + 14, 2) /\ s[i + 16] = ":"
    /\ AllDigits(s, i + 17, 2)

\* end (exclusive) of the greedy run of digits \d+ that starts at i
RECURSIVE DigitsEnd(_, _)
DigitsEnd(s, i) == IF i <= Len(s) /\ s[i] \in Digits THEN DigitsEnd(s, i + 1) ELSE i

\* matcher_timestamp1, \d{4}-\d{2}-\d{2}T\d{2}:\d{2}:\d{2}(?:\.\d+)?Z:
\* the match [start, end) that starts at i, or <<>>
Timestamp1At(s, i) ==
    LET p == i + 19
        q == DigitsEnd(s, p + 1)
    IN  IF ~DateTimeAt(s, i, "T") \/ p > Len(s) THEN <<>>
        ELSE IF s[p] = "Z" THEN <<i, p + 1>>
        ELSE IF s[p] = "." /\ q > p + 1 /\ q <= Len(s) /\ s[q] = "Z" THEN <<i, q + 1>>
        ELSE <<>>

\* matcher_timestamp2, \d{4}-\d{2}-\d{2} \d{2}:\d{2}:\d{2}\.\d{3}:
\* the match [start, end) that starts at i, or <<>>
Timestamp2At(s, i) ==
    IF DateTimeAt(s, i, " ") /\ i + 22 <= Len(s) /\ s[i + 19] = "." /\ AllDigits(s, i + 20, 3)
    THEN <<i, i + 23>>
    ELSE <<>>

FindTimestamp1(s) == LET P == {i \in 1..Len(s) : Timestamp1At(s, i) # <<>>}
                     IN  IF P = {} THEN <<>> ELSE Timestamp1At(s, MinOf(P))

FindTimestamp2(s) == LET P == {i \in 1..Len(s) : Timestamp2At(s, i) # <<>>}
                     IN  IF P = {} THEN <<>> ELSE Timestamp2At(s, MinOf(P))

IsLeap(y) == (y % 4 = 0 /\ y % 100 # 0) \/ y % 400 = 0

DaysIn(y, m) == IF m = 2 THEN (IF IsLeap(y) THEN 29 ELSE 28)
                ELSE IF m \in {4, 6, 9, 11} THEN 30 ELSE 31

\* the first three digits of the fraction that starts at s[i], as milliseconds
Millis(s, i) == LET d(k) == IF i + k <= Len(s) /\ s[i + k] \in Digits THEN DigitVal(s[i + k]) ELSE 0
                IN  100 * d(0) + 10 * d(1) + d(2)

NoTimestamp == [kind |-> "None"]

TimestampErr == [kind |-> "Err"]

\* chrono's parse of a matched text t (DateTime::parse_from_rfc3339(..).to_utc() and
\* NaiveDateTime::parse_from_str(.., "%Y-%m-%d %H:%M:%S%.f").and_utc()): the date and
\* time fields must denote a calendar date and a time of day (second 60 is read as a
\* leap second: second 59 and a fraction of 1000 ms and more); the instant is UTC
ParseDateTime(t) ==
    LET y == Num(t, 1, 4)
        mo == Num(t, 6, 2)
        d == Num(t, 9, 2)
        h == Num(t, 12, 2)
        mi == Num(t, 15, 2)
        sec == Num(t, 18, 2)
        ms == IF Len(t) >= 21 /\ t[20] = "." THEN Millis(t, 21) ELSE 0
    IN  IF mo \in 1..12 /\ d \in 1..DaysIn(y, mo) /\ h <= 23 /\ mi <= 59 /\ sec <= 60
        THEN [kind |-> "Some",
              t |-> IF sec = 60 THEN <<y, mo, d, h, mi, 59, 1000 + ms>>
                    ELSE <<y, mo, d, h, mi, sec, ms>>]
        ELSE TimestampErr

find_timestamp_swapped(line) ==
    LET m1 == FindTimestamp1(line)
        m2 == FindTimestamp2(line)
    IN  IF m2 # <<>> THEN ParseDateTime(Slice(line, m2[1], m2[2]))
        ELSE IF m1 # <<>> THEN ParseDateTime(Slice(line, m1[1], m1[2]))
        ELSE NoTimestamp

\* Ok(Some(t)), Ok(None) or Err
find_timestamp(line) ==
    LET m1 == FindTimestamp1(line)
        m2 == FindTimestamp2(line)
    IN  IF m1 # <<>> THEN ParseDateTime(Slice(line, m1[1], m1[2]))
        ELSE IF m2 # <<>> THEN ParseDateTime(Slice(line, m2[1], m2[2]))
        ELSE NoTimestamp

\* Ord for DateTime<Utc>: a is before b
RECURSIVE LexLess(_, _)
LexLess(a, b) == IF a = <<>> THEN FALSE
                 ELSE IF Head(a) # Head(b) THEN Head(a) < Head(b)
                 ELSE LexLess(Tail(a), Tail(b))

\* ------------------------------------------------------------------ PathClassifier
P_logs == <<"/", "l", "o", "g", "s">>

P_nodes == <<"/", "n", "o", "d", "e", "s">>

\* Path::join of a directory path and an entry name
Join(dir, name) == IF dir = <<>> THEN name
                   ELSE IF dir[Len(dir)] = "/" THEN dir \o name
                   ELSE dir \o <<"/">> \o name

\* Path::ancestors: the path, then each parent, down to "/" or ""
Ancestors(dir) ==
    {dir} \cup {SubSeq(dir, 1, i - 1) : i \in {k \in 2..Len(dir) : dir[k] = "/"}}
          \cup {IF dir # <<>> /\ dir[1] = "/" THEN <<"/">> ELSE <<>>}

included_path(root_dir, dir) ==
    IF dir = root_dir \/ dir = root_dir \o P_logs \/ dir = root_dir \o P_nodes
    THEN TRUE
    ELSE \E a \in Ancestors(dir) : Contains(a, P_logs)

\* ------------------------------------------------------------------ keyword matcher
\* lines::without_terminator: the searcher matches a line without its terminator
WithoutTerminator(line) == IF line # <<>> /\ line[Len(line)] = "\n"
                           THEN SubSeq(line, 1, Len(line) - 1) ELSE line

\* RegexMatcher::new(".*" + keyword + ".*") is Ok: of the characters the model's
\* keywords use, "(" opens a group that is never closed
ValidPattern(keyword) == \A k \in 1..Len(keyword) : keyword[k] # "("

\* the keyword, read as a regular expression, matches line[i..): "." is any
\* character but the line terminator, every other character of the model is itself
KeywordAt(line, keyword, i) ==
    /\ i + Len(keyword) - 1 <= Len(line)
    /\ \A k \in 1..Len(keyword) :
          IF keyword[k] = "." THEN line[i + k - 1] # "\n" ELSE line[i + k - 1] = keyword[k]

\* matcher_keyword on one line: .*keyword.* matches the line
matcher_keyword(line, keyword) ==
    LET body == WithoutTerminator(line)
    IN  \E i \in 1..(Len(body) + 1) : KeywordAt(body, keyword, i)

\* ------------------------------------------------------------------ the bundle on disk
\* A node of the bundle tree, in fs::read_dir order. kind: "dir", "file" (a regular
\* file) or "other" (neither); bad: the directory cannot be read or the file cannot be
\* opened; bytes: a file's content; members: the entries of a zip archive, each
\* [name, bytes, bad]; corrupt: the file has the zip signature and is no archive.
Dir(name, children, bad) ==
    [kind |-> "dir", name |-> name, bad |-> bad, children |-> children,
     bytes |-> <<>>, members |-> <<>>, corrupt |-> FALSE]

File(name, bytes, bad) ==
    [kind |-> "file", name |-> name, bad |-> bad, children |-> <<>>,
     bytes |-> bytes, members |-> <<>>, corrupt |-> FALSE]

\* the zip local-file-header signature PK\x03\x04
ZipSignature == <<"P", "K", "x03", "x04">>

Zip(name, members, corrupt) ==
    [kind |-> "file", name |-> name, bad |-> FALSE, children |-> <<>>,
     bytes |-> ZipSignature, members |-> members, corrupt |-> corrupt]

Other(name) ==
    [kind |-> "other", name |-> name, bad |-> FALSE, children |-> <<>>,
     bytes |-> <<>>, members |-> <<>>, corrupt |-> FALSE]

\* the lines of a text, each with its terminator; the last may have none
RECURSIVE SplitLines(_)
SplitLines(bytes) ==
    IF bytes = <<>> THEN <<>>
    ELSE LET k == IndexFrom(bytes, "\n", 1)
         IN  IF k > Len(bytes) THEN <<bytes>>
             ELSE <<SubSeq(bytes, 1, k)>> \o SplitLines(SubSeq(bytes, k + 1, Len(bytes)))

\* ------------------------------------------------------------------ TreeSearcher
Ok(entries) == [ok |-> TRUE, entries |-> entries]

Err(entries) == [ok |-> FALSE, entries |-> entries]

\* the sink of search_file and search_reader: one Entry of a matched line
NewEntry(line, path) ==
    [content |-> line,
     level |-> find_log_level(line),
     path |-> path,
     timestamp |-> IF find_timestamp(line).kind = "Some" THEN find_timestamp(line)
                   ELSE NoTimestamp]

\* the outcome of a loop whose iterations have the outcomes rs: the iterations run up
\* to the first Err, which the ? operator returns, and the entries pushed until then
\* stay in the collection
RunLoop(rs) ==
    LET failed == {i \in 1..Len(rs) : ~rs[i].ok}
        last == IF failed = {} THEN Len(rs) ELSE MinOf(failed)
    IN  [ok |-> failed = {}, entries |-> Concat([i \in 1..last |-> rs[i].entries])]

\* a searcher that leaves out the lines whose timestamp text does not parse
search_lines_parsed(lines, path, keyword) ==
    Concat([i \in 1..Len(lines) |->
              IF matcher_keyword(lines[i], keyword) /\ find_timestamp(lines[i]).kind # "Err"
              THEN <<NewEntry(lines[i], path)>>
              ELSE <<>>])

\* the searcher over the lines of one file or archive entry: the sink runs on every
\* line that matcher_keyword matches
search_lines(lines, path, keyword) ==
    Concat([i \in 1..Len(lines) |->
              IF matcher_keyword(lines[i], keyword) THEN <<NewEntry(lines[i], path)>>
              ELSE <<>>])

search_file(file, path, keyword) ==
    Ok(search_lines(SplitLines(file.bytes), path, keyword))

search_reader(member, path, keyword) ==
    IF member.bad THEN Err(<<>>)
    ELSE Ok(search_lines(SplitLines(member.bytes), path, keyword))

\* File::open, read_exact of 4 bytes, comparison with the signature
is_zip(file) ==
    IF file.bad \/ Len(file.bytes) < 4 THEN [ok |-> FALSE, zip |-> FALSE]
    ELSE [ok |-> TRUE, zip |-> SubSeq(file.bytes, 1, 4) = ZipSignature]

\* a loop over the archive that gives every entry the path of the archive
search_archive_flat(members, path, keyword) ==
    RunLoop([index \in 1..Len(members) |->
               search_reader(members[index], path, keyword)])

\* the loop over archive.by_index(index)
search_archive(members, path, keyword) ==
    RunLoop([index \in 1..Len(members) |->
               search_reader(members[index], Join(path, members[index].name), keyword)])

\* the body of the loop of search_tree for a regular file
search_candidate(file, path, keyword) ==
    IF ~is_zip(file).ok THEN Err(<<>>)
    ELSE IF is_zip(file).zip
    THEN (IF file.corrupt THEN Err(<<>>)
          ELSE search_archive(file.members, path, keyword))
    ELSE search_file(file, path, keyword)

\* a walk that passes over a directory it cannot read
RECURSIVE search_tree_skips(_, _, _, _)
search_tree_skips(root_dir, keyword, node, dir) ==
    IF ~included_path(root_dir, dir) THEN Ok(<<>>)
    ELSE IF node.bad THEN Ok(<<>>)
    ELSE RunLoop([i \in 1..Len(node.children) |->
                    IF node.children[i].kind = "dir"
                    THEN search_tree_skips(root_dir, keyword, node.children[i],
                                           Join(dir, node.children[i].name))
                    ELSE IF node.children[i].kind = "file"
                    THEN search_candidate(node.children[i],
                                          Join(dir, node.children[i].name), keyword)
                    ELSE Ok(<<>>)])

\* search_tree on the directory node at path dir: the entries it pushes, and Ok or Err
RECURSIVE search_tree(_, _, _, _)
search_tree(root_dir, keyword, node, dir) ==
    IF ~included_path(root_dir, dir) THEN Ok(<<>>)
    ELSE IF node.bad THEN Err(<<>>)
    ELSE RunLoop([i \in 1..Len(node.children) |->
                    IF node.children[i].kind = "dir"
                    THEN search_tree(root_dir, keyword, node.children[i],
                                     Join(dir, node.children[i].name))
                    ELSE IF node.children[i].kind = "file"
                    THEN search_candidate(node.children[i],
                                          Join(dir, node.children[i].name), keyword)
                    ELSE Ok(<<>>)])

\* ------------------------------------------------------------------ ResultCache
\* the comparator of cache.sort_by
Compare(a, b) ==
    IF a.timestamp.kind = "None" /\ b.timestamp.kind = "Some" THEN "Greater"
    ELSE IF b.timestamp.kind = "None" /\ a.timestamp.kind = "Some" THEN "Less"
    ELSE IF a.timestamp.kind = "None" THEN "Equal"
    ELSE IF LexLess(a.timestamp.t, b.timestamp.t) THEN "Less"
    ELSE IF LexLess(b.timestamp.t, a.timestamp.t) THEN "Greater"
    ELSE "Equal"

\* the place of s[i] after a stable sort by Compare: behind the elements that are
\* less, and behind the equal ones that came earlier
Rank(s, i) ==
    1 + Cardinality({j \in 1..Len(s) :
                       \/ Compare(s[j], s[i]) = "Less"
                       \/ Compare(s[j], s[i]) = "Equal" /\ j < i})

\* a sort that is not stable: equal elements come out in reverse order
sort_by_unstable(s) ==
    [k \in 1..Len(s) |->
        s[CHOOSE i \in 1..Len(s) :
            k = 1 + Cardinality({j \in 1..Len(s) :
                                   \/ Compare(s[j], s[i]) = "Less"
                                   \/ Compare(s[j], s[i]) = "Equal" /\ j > i})]]

\* slice::sort_by, a stable sort
sort_by(s) == [k \in 1..Len(s) |-> s[CHOOSE i \in 1..Len(s) : Rank(s, i) = k]]

\* usize::saturating_sub
saturating_sub(a, b) == IF a >= b THEN a - b ELSE 0

Window_no_skip(cache, offset, limit) ==
    SubSeq(cache, 1, Min(limit, saturating_sub(Len(cache), offset)))

\* cache.iter().skip(offset).take(limit) with limit clamped to len - offset
Window(cache, offset, limit) ==
    LET lim == Min(limit, saturating_sub(Len(cache), offset))
        skipped == SubSeq(cache, Min(offset, Len(cache)) + 1, Len(cache))
    IN  SubSeq(skipped, 1, Min(lim, Len(skipped)))

\* the rest of search once the walk has had the outcome w: the Err of the walk leaves
\* in the cache what the walk pushed; after an Ok the cache is sorted and windowed
search_walked(w, offset, limit) ==
    IF ~w.ok
    THEN [ok |-> FALSE, cache |-> w.entries, entries_offset |-> <<>>, walked |-> TRUE]
    ELSE [ok |-> TRUE, cache |-> sort_by(w.entries),
          entries_offset |-> Window(sort_by(w.entries), offset, limit), walked |-> TRUE]

\* a search that moves the window out of a populated cache instead of cloning it
sbsearch_search_drains(tree, root_dir, pattern, offset, limit, cache) ==
    IF cache = <<>>
    THEN IF ~ValidPattern(pattern)
         THEN [ok |-> FALSE, cache |-> cache, entries_offset |-> <<>>, walked |-> FALSE]
         ELSE CHOOSE r \in {search_walked(w, offset, limit) :
                              w \in {search_tree(root_dir, pattern, tree, root_dir)}} : TRUE
    ELSE [ok |-> TRUE,
          cache |-> SubSeq(cache, 1, Min(offset, Len(cache)))
                    \o SubSeq(cache, Min(offset, Len(cache))
                                     + Len(Window(cache, offset, limit)) + 1, Len(cache)),
          entries_offset |-> Window(cache, offset, limit),
          walked |-> FALSE]

\* sbsearch::search: [ok, cache, entries_offset, walked]; walked: the tree walk was run
sbsearch_search(tree, root_dir, pattern, offset, limit, cache) ==
    IF cache = <<>>
    THEN IF ~ValidPattern(pattern)
         THEN [ok |-> FALSE, cache |-> cache, entries_offset |-> <<>>, walked |-> FALSE]
         ELSE CHOOSE r \in {search_walked(w, offset, limit) :
                              w \in {search_tree(root_dir, pattern, tree, root_dir)}} : TRUE
    ELSE [ok |-> TRUE, cache |-> cache, entries_offset |-> Window(cache, offset, limit),
          walked |-> FALSE]

\* ------------------------------------------------------------------ inputs
\* "2025-12-30T" hh ":00:00Z"
Rfc3339(hh) == <<"2", "0", "2", "5", "-", "1", "2", "-", "3", "0", "T">> \o hh
               \o <<":", "0", "0", ":", "0", "0", "Z">>

H09 == <<"0", "9">>

H10 == <<"1", "0">>

H11 == <<"1", "1">>

\* no hour of the day
H25 == <<"2", "5">>

\* log lines, each holding the text "ab"
Line09 == Rfc3339(H09) \o <<" ", "a", "b", "\n">>

Line10 == Rfc3339(H10) \o <<" ", "a", "b", "\n">>

Line11 == Rfc3339(H11) \o <<" ", "a", "b", "\n">>

LineUndated == <<"a", "b", " ", "e", "r", "r", "=", "\n">>

\* a last line of a file, with no line terminator
Line10Unterminated == Rfc3339(H10) \o <<" ", "a", "b">>

LineOther == <<"x", "\n">>

\* a line whose timestamp text matches the RFC 3339 pattern and is no date-time
LineBadDate == Rfc3339(H25) \o <<" ", "a", "b", "\n">>

\* file contents
FileTexts == {Line10 \o Line09, Line11, LineUndated \o LineOther,
              Line10Unterminated, <<>>, LineBadDate \o Line11}

\* keywords: plain text, text with a regex metacharacter, the empty keyword, a
\* keyword no line holds, and one that is no regular expression
Keywords == {<<"a", "b">>, <<"a", ".">>, <<>>, <<"a", "a">>, <<"(">>}

N_logs == <<"l", "o", "g", "s">>

N_nodes == <<"n", "o", "d", "e", "s">>

N_yamls == <<"y", "a", "m", "l", "s">>

N_zip == <<"n", ".", "z", "i", "p">>

\* bundle roots: a relative path and an absolute path below a directory named logs
Roots == {<<"b">>, <<"/", "l", "o", "g", "s", "/", "b">>}

\* <root>/logs/{f, g}, <root>/nodes/n.zip with one entry, <root>/yamls/y
Bundle(f, g, gbad, z, zcorrupt, subbad) ==
    Dir(<<>>,
        <<Dir(N_logs, <<File(<<"f">>, f, FALSE), File(<<"g">>, g, gbad)>>, subbad),
          Dir(N_nodes, <<Zip(N_zip, <<[name |-> <<"m">>, bytes |-> z, bad |-> FALSE]>>,
                             zcorrupt),
                         Other(<<"o">>)>>, FALSE),
          Dir(N_yamls, <<File(<<"y">>, Line10, FALSE)>>, FALSE)>>,
        FALSE)


\* the bundles of the direct search calls
SearchBundles ==
    {Bundle(f, g, gbad, Line09, zc, FALSE) : f \in FileTexts, g \in {Line11, <<>>},
                                             gbad \in BOOLEAN, zc \in BOOLEAN}
    \cup {Bundle(Line11, Line10, FALSE, <<>>, FALSE, TRUE)}

\* the bundles of the viewer: four matches over two pages; a source file whose last
\* line has no terminator; an archive that cannot be opened after three matches; no
\* match at all; a file that cannot be opened
ViewerBundles ==
    {Bundle(Line10 \o Line09, Line11, FALSE, LineUndated, FALSE, FALSE),
     Bundle(Line10Unterminated, Line11, FALSE, Line09, FALSE, FALSE),
     Bundle(Line10 \o Line09, Line11, FALSE, Line09, TRUE, FALSE),
     Bundle(<<>>, LineOther, FALSE, <<>>, FALSE, FALSE),
     Bundle(Line11, <<>>, TRUE, Line09, FALSE, FALSE)}

\* ------------------------------------------------------------------ state
VARIABLES
    bundle,              \* the directory tree at sbpath
    sbpath,              \* Tui.sbpath: the bundle root
    keyword,             \* Tui.keyword
    entries_cache,       \* Tui.entries_cache: the cache handed to every search call
    entries_offset,      \* Tui.entries_offset: the window of the last search call
    calls,               \* search calls made so far
    walks,               \* tree walks run so far
    oks,                 \* search calls that returned Ok so far
    last_call,           \* the last search call: its arguments, result and the cache before it
    current_screen,      \* Tui.current_screen
    search_mode,         \* Tui.search_mode
    exit,                \* Tui.exit
    selected,            \* Tui.nav_state.selected(): Some(index) or None
    search,              \* Tui.search: the committed free-text filter
    search_input,        \* Tui.search_input: the value of the text buffer
    page_final,          \* Tui.page_final
    page_goto,           \* Tui.page_goto
    page_reload,         \* Tui.page_reload
    last_saved_filename, \* Tui.last_saved_filename
    pc,                  \* position in Tui::run: "loop", "draw", "event", "done",
                         \* "panicked"; "off" outside it
    now,                 \* chrono::Utc::now(), in seconds
    disk,                \* the files written by save_to_file: a set of [name, bytes]
    last_save,           \* the last call of save_to_file: file name, outcome, the cache
    popup_filename,      \* the file name the ConfirmSave popup on screen showed first,
                         \* <<>> while no popup has been drawn
    popup_event,         \* the answer a prompt handled in this pass of the loop of
                         \* Tui::run, with its screen: "y", "n" or "other" on a
                         \* confirmation screen, "Enter", "Esc" or "other" at the search
                         \* prompt of Main; NoEvent otherwise
    fn_arg,              \* the argument of a classifier called alone
    fn_ret               \* <<its result>>, <<>> before the call

env == <<bundle, sbpath, keyword>>

hist == <<calls, walks, oks, last_call>>

cached == <<entries_cache, entries_offset>>

screen == <<current_screen, search_mode, exit>>

text == <<search, search_input>>

paging == <<page_final, page_goto, page_reload>>

files == <<last_saved_filename, now, disk, last_save, popup_filename>>

fn == <<fn_arg, fn_ret>>

tui == <<screen, selected, text, paging>>

vars == <<bundle, sbpath, keyword, entries_cache, entries_offset, calls, walks, oks,
          last_call, current_screen, search_mode, exit, selected, search, search_input,
          page_final, page_goto, page_reload, last_saved_filename, pc, now, disk,
          last_save, popup_filename, popup_event, fn_arg, fn_ret>>

\* Option<usize>
Some(i) == <<i>>

None == <<>>

NoCall == [made |-> FALSE]

NoSave == [made |-> FALSE, n |-> 0]

NoEvent == [key |-> "", screen |-> ""]

\* Tui::new
TuiNew ==
    /\ current_screen = "Main"
    /\ entries_offset = <<>>
    /\ entries_cache = <<>>
    /\ exit = FALSE
    /\ selected = Some(0)
    /\ search = <<>>
    /\ search_input = <<>>
    /\ search_mode = "Normal"
    /\ page_final = 1
    /\ page_goto = 1
    /\ page_reload = TRUE
    /\ last_saved_filename = <<>>

NoHistory == calls = 0 /\ walks = 0 /\ oks = 0 /\ last_call = NoCall /\ popup_event = NoEvent

NoClassifier == fn_arg = <<>> /\ fn_ret = <<>>

NoFiles == now = 0 /\ disk = {} /\ last_save = NoSave /\ popup_filename = <<>>

\* the bookkeeping of one search call with result r
Record(r, offset, limit) ==
    /\ calls' = calls + 1
    /\ walks' = walks + (IF r.walked THEN 1 ELSE 0)
    /\ oks' = oks + (IF r.ok THEN 1 ELSE 0)
    /\ last_call' = [made |-> TRUE, offset |-> offset, limit |-> limit, ok |-> r.ok,
                     walked |-> r.walked, before |-> entries_cache]

\* ------------------------------------------------------------------ direct search calls
InitSearch ==
    /\ bundle \in SearchBundles /\ sbpath \in Roots /\ keyword \in Keywords
    /\ TuiNew /\ NoHistory /\ NoClassifier /\ NoFiles /\ pc = "off"

\* search(dir, keyword, offset, limit, cache), as the tests of sbsearch.rs call it
SearchCall(offset, limit) ==
    /\ calls < MaxCalls
    /\ \E r \in {sbsearch_search(bundle, sbpath, keyword, offset, limit, entries_cache)} :
          /\ entries_cache' = r.cache
          /\ entries_offset' = r.entries_offset
          /\ Record(r, offset, limit)
    /\ UNCHANGED <<env, tui, files, pc, popup_event, fn>>

NextSearch == \E offset \in 0..MaxOffset, limit \in 0..MaxLimit : SearchCall(offset, limit)

SpecSearch == InitSearch /\ [][NextSearch]_vars

\* ------------------------------------------------------------------ find_log_level alone
F_info == <<"i", "n", "f", "o">>

F_warn_quoted == <<"w", "a", "r", "n", "\"">>

\* pieces of log lines: the markers of the four rules, level tokens, separators
LevelFragments ==
    {T_level_eq, T_level_json, T_err_eq, T_error_br, <<"[", "E", "R", "R", "O", "R", "]">>,
     F_info, F_warn_quoted, <<" ">>, <<"\"">>, <<"x", ":", "y">>}

LevelLines == {Concat(fs) : fs \in SeqsUpTo(LevelFragments, MaxFragments)}

NoViewer == TuiNew /\ NoHistory /\ NoFiles /\ pc = "off"

NoBundle == bundle = Dir(<<>>, <<>>, FALSE) /\ sbpath = <<>> /\ keyword = <<>>

InitLevel == fn_arg \in LevelLines /\ fn_ret = <<>> /\ NoBundle /\ NoViewer

CallFindLogLevel ==
    /\ fn_ret = <<>>
    /\ fn_ret' = <<find_log_level(fn_arg)>>
    /\ UNCHANGED <<env, cached, hist, tui, files, pc, popup_event, fn_arg>>

NextLevel == CallFindLogLevel

SpecLevel == InitLevel /\ [][NextLevel]_vars

\* ------------------------------------------------------------------ find_timestamp alone
Naive(hh, fraction) == <<"2", "0", "2", "5", "-", "1", "2", "-", "3", "0", " ">> \o hh
                       \o <<":", "0", "0", ":", "0", "0", ".">> \o fraction

\* pieces of log lines: an RFC3339 time, one with a fraction, one of month 13, a
\* zone-less time, one of hour 24, a zone-less time with two fraction digits, text
TimestampFragments ==
    {Rfc3339(H10),
     <<"2", "0", "2", "5", "-", "1", "2", "-", "3", "0", "T", "0", "9", ":", "0", "0", ":",
       "0", "0", ".", "5", "Z">>,
     <<"2", "0", "2", "5", "-", "1", "3", "-", "3", "0", "T", "1", "0", ":", "0", "0", ":",
       "0", "0", "Z">>,
     Naive(H11, <<"2", "6", "6">>),
     Naive(<<"2", "4">>, <<"0", "0", "0">>),
     Naive(H09, <<"2", "6">>),
     <<" ">>, <<"x">>}

TimestampLines == {Concat(fs) : fs \in SeqsUpTo(TimestampFragments, MaxFragments)}

InitTs == fn_arg \in TimestampLines /\ fn_ret = <<>> /\ NoBundle /\ NoViewer

CallFindTimestamp ==
    /\ fn_ret = <<>>
    /\ fn_ret' = <<find_timestamp(fn_arg)>>
    /\ UNCHANGED <<env, cached, hist, tui, files, pc, popup_event, fn_arg>>

NextTs == CallFindTimestamp

SpecTs == InitTs /\ [][NextTs]_vars

\* ------------------------------------------------------------------ included_path alone
\* names of directories and files below the root
Segments == {N_logs, N_nodes, N_yamls, <<"l", "o", "g", "s", "x">>, N_zip}

\* bundle roots: relative, below a directory named logs, and named logs
PathRoots == Roots \cup {N_logs}

RECURSIVE JoinAll(_, _)
JoinAll(dir, names) == IF names = <<>> THEN dir
                       ELSE JoinAll(Join(dir, Head(names)), Tail(names))

InitPath ==
    /\ fn_arg \in {[root_dir |-> r, names |-> ns, dir |-> JoinAll(r, ns)] :
                     r \in PathRoots, ns \in SeqsUpTo(Segments, MaxDepth)}
    /\ fn_ret = <<>> /\ NoBundle /\ NoViewer

CallIncludedPath ==
    /\ fn_ret = <<>>
    /\ fn_ret' = <<included_path(fn_arg.root_dir, fn_arg.dir)>>
    /\ UNCHANGED <<env, cached, hist, tui, files, pc, popup_event, fn_arg>>

NextPath == CallIncludedPath

SpecPath == InitPath /\ [][NextPath]_vars

\* ------------------------------------------------------------------ the viewer
\* usize::div_ceil
div_ceil(a, b) == (a + b - 1) \div b

\* the digit that writes n
DigitChar(n) == CHOOSE c \in Digits : DigitVal(c) = n

\* format!("sbsearch_{}.log", Utc::now().format("%Y%m%d%H%M%S")) at second t of
\* 2025-12-30 00:00
Filename(t) ==
    <<"s", "b", "s", "e", "a", "r", "c", "h", "_">>
    \o <<"2", "0", "2", "5", "1", "2", "3", "0", "0", "0", "0", "0", "0", DigitChar(t)>>
    \o <<".", "l", "o", "g">>

\* the key events read by event::handle; "Release" is an event that is no key press
Keys == {"q", "G", "g", "/", "c", "s", "Up", "k", "Down", "j", "Left", "Right",
         "Enter", "Esc", "y", "n", "a", "Release"}

\* the keys handed to the text buffer in Insert mode: characters and cursor keys
TextKeys == {"a"}

CursorKeys == {"Up", "Down", "Left", "Right"}

\* the keywords of the viewer: on every bundle a plain text, on one bundle a keyword
\* that is no regular expression
ViewerKeywords(b) ==
    {<<"a", "b">>} \cup (IF b = Bundle(<<>>, LineOther, FALSE, <<>>, FALSE, FALSE)
                         THEN {<<"(">>} ELSE {})

InitViewer ==
    /\ bundle \in ViewerBundles /\ sbpath = <<"b">> /\ keyword \in ViewerKeywords(bundle)
    /\ TuiNew /\ NoHistory /\ NoClassifier /\ NoFiles /\ pc = "loop"

\* a load that leaves the selection where it was
read_entries_from_sb_keeps_selection ==
    \E r \in {sbsearch_search(bundle, sbpath, keyword, page_goto * PageSize - PageSize,
                              PageSize, entries_cache)} :
        /\ entries_cache' = r.cache
        /\ entries_offset' = IF r.ok THEN r.entries_offset ELSE <<>>
        /\ page_final' = div_ceil(Len(r.cache), PageSize)
        /\ page_reload' = FALSE
        /\ selected' = selected
        /\ Record(r, page_goto * PageSize - PageSize, PageSize)

\* Tui::read_entries_from_sb
read_entries_from_sb ==
    \E r \in {sbsearch_search(bundle, sbpath, keyword, page_goto * PageSize - PageSize,
                              PageSize, entries_cache)} :
        /\ entries_cache' = r.cache
        /\ entries_offset' = IF r.ok THEN r.entries_offset ELSE <<>>
        /\ page_final' = div_ceil(Len(r.cache), PageSize)
        /\ page_reload' = FALSE
        /\ selected' = Some(0)
        /\ Record(r, page_goto * PageSize - PageSize, PageSize)

\* Tui::run, top of the loop with page_reload set
Reload ==
    /\ pc = "loop" /\ ~exit /\ page_reload /\ calls < MaxLoads
    /\ read_entries_from_sb
    /\ pc' = "draw"
    /\ popup_event' = NoEvent
    /\ UNCHANGED <<env, screen, text, page_goto, files, fn>>

\* Tui::run, top of the loop with page_reload clear
NoReload ==
    /\ pc = "loop" /\ ~exit /\ ~page_reload
    /\ pc' = "draw"
    /\ popup_event' = NoEvent
    /\ UNCHANGED <<env, cached, hist, tui, files, fn>>

\* Tui::run, the loop condition fails
Terminate ==
    /\ pc = "loop" /\ exit
    /\ pc' = "done"
    /\ UNCHANGED <<env, cached, hist, tui, files, popup_event, fn>>

\* what the list widget may make of the selection handed to it by
\* render_stateful_widget: an index of the list, which holds one item per entry of the
\* page, and the one line "No log entries found." for an empty page
ListRendered(sel, n) == IF sel = None THEN sel
                        ELSE Some(Min(sel[1], (IF n = 0 THEN 1 ELSE n) - 1))

\* terminal.draw on the Main screen: draw_main
DrawMain ==
    /\ pc = "draw" /\ current_screen = "Main"
    /\ selected' \in {selected, ListRendered(selected, Len(entries_offset))}
    /\ pc' = "event"
    /\ UNCHANGED <<env, cached, hist, screen, text, paging, files, popup_event, fn>>

\* terminal.draw on the ConfirmExit screen
DrawConfirmExit ==
    /\ pc = "draw" /\ current_screen = "ConfirmExit"
    /\ pc' = "event"
    /\ UNCHANGED <<env, cached, hist, tui, files, popup_event, fn>>

\* terminal.draw on the ConfirmSave screen: the file name is made from the clock
DrawConfirmSave ==
    /\ pc = "draw" /\ current_screen = "ConfirmSave"
    /\ \E t \in now..MaxClock :
          /\ now' = t
          /\ last_saved_filename' = Filename(t)
          /\ popup_filename' = IF popup_filename = <<>> THEN Filename(t) ELSE popup_filename
    /\ pc' = "event"
    /\ UNCHANGED <<env, cached, hist, tui, disk, last_save, popup_event, fn>>

\* terminal.draw or crossterm::event::read returns Err, and run returns it
RunFails ==
    /\ pc \in {"draw", "event"}
    /\ pc' = "failed"
    /\ UNCHANGED <<env, cached, hist, tui, files, popup_event, fn>>

\* ------------------------------------------------------------------ handle_key_event
\* what no key handler touches
untouched == <<env, cached, hist, fn>>

\* the answer being handled and the prompt it arrived on: a confirmation screen, or
\* the search prompt of the Main screen in Insert mode
Handled(key) ==
    IF current_screen # "Main"
    THEN [key |-> IF key \in {"y", "n"} THEN key ELSE "other", screen |-> current_screen]
    ELSE IF search_mode = "Insert"
    THEN [key |-> IF key \in {"Enter", "Esc"} THEN key ELSE "other", screen |-> "Main"]
    ELSE NoEvent

Main(mode) == pc = "event" /\ current_screen = "Main" /\ search_mode = mode

\* an event that is no key press
KeyRelease(key) ==
    /\ pc = "event" /\ key = "Release"
    /\ pc' = "loop"
    /\ popup_event' = Handled(key)
    /\ UNCHANGED <<untouched, tui, files>>

\* a q that leaves at once, without the confirmation screen
KeyQuit_exits(key) ==
    /\ Main("Normal") /\ key = "q"
    /\ exit' = TRUE
    /\ pc' = "loop"
    /\ popup_event' = Handled(key)
    /\ UNCHANGED <<untouched, current_screen, search_mode, selected, text, paging, files>>

\* Main/Normal, q
KeyQuit(key) ==
    /\ Main("Normal") /\ key = "q"
    /\ current_screen' = "ConfirmExit"
    /\ pc' = "loop"
    /\ popup_event' = Handled(key)
    /\ UNCHANGED <<untouched, search_mode, exit, selected, text, paging, files>>

\* a G that goes to the last entry of the cache, not of the page
nav_last_line_of_cache(key) ==
    /\ Main("Normal") /\ key = "G"
    /\ selected' = IF entries_cache # <<>> THEN Some(Len(entries_cache) - 1) ELSE selected
    /\ pc' = "loop"
    /\ popup_event' = Handled(key)
    /\ UNCHANGED <<untouched, screen, text, paging, files>>

\* Tui::nav_last_line (Main/Normal, G)
nav_last_line(key) ==
    /\ Main("Normal") /\ key = "G"
    /\ selected' = IF entries_offset # <<>> THEN Some(Len(entries_offset) - 1) ELSE selected
    /\ pc' = "loop"
    /\ popup_event' = Handled(key)
    /\ UNCHANGED <<untouched, screen, text, paging, files>>

\* Tui::nav_first_line (Main/Normal, g)
nav_first_line(key) ==
    /\ Main("Normal") /\ key = "g"
    /\ selected' = Some(0)
    /\ pc' = "loop"
    /\ popup_event' = Handled(key)
    /\ UNCHANGED <<untouched, screen, text, paging, files>>

\* a / that opens the prompt on the text typed before
KeySearch_keeps_buffer(key) ==
    /\ Main("Normal") /\ key = "/"
    /\ search_mode' = "Insert"
    /\ pc' = "loop"
    /\ popup_event' = Handled(key)
    /\ UNCHANGED <<untouched, current_screen, exit, selected, text, paging, files>>

\* Main/Normal, /
KeySearch(key) ==
    /\ Main("Normal") /\ key = "/"
    /\ search_mode' = "Insert"
    /\ search_input' = <<>>
    /\ pc' = "loop"
    /\ popup_event' = Handled(key)
    /\ UNCHANGED <<untouched, current_screen, exit, selected, search, paging, files>>

\* a c that also goes back to the first page
KeyClear_first_page(key) ==
    /\ Main("Normal") /\ key = "c"
    /\ search' = <<>>
    /\ search_input' = <<>>
    /\ page_goto' = 1
    /\ page_reload' = TRUE
    /\ pc' = "loop"
    /\ popup_event' = Handled(key)
    /\ UNCHANGED <<untouched, screen, selected, page_final, files>>

\* Main/Normal, c
KeyClear(key) ==
    /\ Main("Normal") /\ key = "c"
    /\ search' = <<>>
    /\ search_input' = <<>>
    /\ pc' = "loop"
    /\ popup_event' = Handled(key)
    /\ UNCHANGED <<untouched, screen, selected, paging, files>>

\* Main/Normal, s
KeySave(key) ==
    /\ Main("Normal") /\ key = "s"
    /\ current_screen' = "ConfirmSave"
    /\ pc' = "loop"
    /\ popup_event' = Handled(key)
    /\ UNCHANGED <<untouched, search_mode, exit, selected, text, paging, files>>

\* Tui::nav_prev_line (Main/Normal, Up and k)
nav_prev_line(key) ==
    /\ Main("Normal") /\ key \in {"Up", "k"}
    /\ selected' = IF selected = None THEN Some(0)
                   ELSE IF selected[1] > 0 THEN Some(selected[1] - 1) ELSE selected
    /\ pc' = "loop"
    /\ popup_event' = Handled(key)
    /\ UNCHANGED <<untouched, screen, text, paging, files>>

\* a next line that goes round from the last line of the page to the first
nav_next_line_cycles(key) ==
    /\ Main("Normal") /\ key \in {"Down", "j"}
    /\ selected = None \/ entries_offset # <<>>
    /\ selected' = IF selected = None THEN Some(0)
                   ELSE IF selected[1] < Len(entries_offset) - 1 THEN Some(selected[1] + 1)
                   ELSE Some(0)
    /\ pc' = "loop"
    /\ popup_event' = Handled(key)
    /\ UNCHANGED <<untouched, screen, text, paging, files>>

\* Tui::nav_next_line (Main/Normal, Down and j) with no selection or a page of entries
nav_next_line(key) ==
    /\ Main("Normal") /\ key \in {"Down", "j"}
    /\ selected = None \/ entries_offset # <<>>
    /\ selected' = IF selected = None THEN Some(0)
                   ELSE IF selected[1] < Len(entries_offset) - 1 THEN Some(selected[1] + 1)
                   ELSE selected
    /\ pc' = "loop"
    /\ popup_event' = Handled(key)
    /\ UNCHANGED <<untouched, screen, text, paging, files>>

\* Tui::nav_next_line on an empty page: entries_offset.len() - 1 overflows; a build
\* that wraps compares the index with usize::MAX and moves the selection on
nav_next_line_wraps(key) ==
    /\ Main("Normal") /\ key \in {"Down", "j"}
    /\ selected # None /\ entries_offset = <<>>
    /\ selected[1] < MaxSelected
    /\ selected' = Some(selected[1] + 1)
    /\ pc' = "loop"
    /\ popup_event' = Handled(key)
    /\ UNCHANGED <<untouched, screen, text, paging, files>>

\* Tui::nav_next_line on an empty page, in a build that checks overflow: a panic
nav_next_line_panics(key) ==
    /\ Main("Normal") /\ key \in {"Down", "j"}
    /\ selected # None /\ entries_offset = <<>>
    /\ pc' = "panicked"
    /\ popup_event' = Handled(key)
    /\ UNCHANGED <<untouched, tui, files>>

\* Tui::nav_prev_page (Main/Normal, Left)
nav_prev_page(key) ==
    /\ Main("Normal") /\ key = "Left"
    /\ IF page_goto > 1
       THEN page_goto' = page_goto - 1 /\ page_reload' = TRUE
       ELSE UNCHANGED <<page_goto, page_reload>>
    /\ pc' = "loop"
    /\ popup_event' = Handled(key)
    /\ UNCHANGED <<untouched, screen, selected, text, page_final, files>>

\* a next page that does not look at page_final
nav_next_page_unchecked(key) ==
    /\ Main("Normal") /\ key = "Right"
    /\ page_goto < MaxLoads + 1
    /\ page_goto' = page_goto + 1 /\ page_reload' = TRUE
    /\ pc' = "loop"
    /\ popup_event' = Handled(key)
    /\ UNCHANGED <<untouched, screen, selected, text, page_final, files>>

\* Tui::nav_next_page (Main/Normal, Right)
nav_next_page(key) ==
    /\ Main("Normal") /\ key = "Right"
    /\ IF page_goto < page_final
       THEN page_goto' = page_goto + 1 /\ page_reload' = TRUE
       ELSE UNCHANGED <<page_goto, page_reload>>
    /\ pc' = "loop"
    /\ popup_event' = Handled(key)
    /\ UNCHANGED <<untouched, screen, selected, text, page_final, files>>

\* Main/Normal, a key with no binding
KeyUnboundMain(key) ==
    /\ Main("Normal") /\ key \in {"Enter", "Esc", "y", "n", "a"}
    /\ pc' = "loop"
    /\ popup_event' = Handled(key)
    /\ UNCHANGED <<untouched, tui, files>>

\* an Enter that also asks for the page to be loaded again
KeyCommit_reloads(key) ==
    /\ Main("Insert") /\ key = "Enter"
    /\ search' = search_input
    /\ search_mode' = "Normal"
    /\ page_reload' = TRUE
    /\ pc' = "loop"
    /\ popup_event' = Handled(key)
    /\ UNCHANGED <<untouched, current_screen, exit, selected, search_input, page_final,
                   page_goto, files>>

\* Main/Insert, Enter
KeyCommit(key) ==
    /\ Main("Insert") /\ key = "Enter"
    /\ search' = search_input
    /\ search_mode' = "Normal"
    /\ pc' = "loop"
    /\ popup_event' = Handled(key)
    /\ UNCHANGED <<untouched, current_screen, exit, selected, search_input, paging, files>>

\* an Esc that keeps the filter an earlier Enter committed
KeyCancel_keeps_filter(key) ==
    /\ Main("Insert") /\ key = "Esc"
    /\ search_input' = <<>>
    /\ search_mode' = "Normal"
    /\ pc' = "loop"
    /\ popup_event' = Handled(key)
    /\ UNCHANGED <<untouched, current_screen, exit, selected, search, paging, files>>

\* Main/Insert, Esc
KeyCancel(key) ==
    /\ Main("Insert") /\ key = "Esc"
    /\ search' = <<>>
    /\ search_input' = <<>>
    /\ search_mode' = "Normal"
    /\ pc' = "loop"
    /\ popup_event' = Handled(key)
    /\ UNCHANGED <<untouched, current_screen, exit, selected, paging, files>>

\* Main/Insert, any other key: search_input.handle_event; a character is added to the
\* value, a cursor key leaves the value alone
KeyText(key) ==
    /\ Main("Insert") /\ key \in TextKeys \cup CursorKeys
    /\ key \in TextKeys => Len(search_input) < MaxInput
    /\ search_input' = IF key \in TextKeys THEN Append(search_input, key) ELSE search_input
    /\ pc' = "loop"
    /\ popup_event' = Handled(key)
    /\ UNCHANGED <<untouched, screen, selected, search, paging, files>>

\* a y that goes back to the Main screen and leaves the exit flag clear
KeyExitYes_goes_back(key) ==
    /\ pc = "event" /\ current_screen = "ConfirmExit" /\ key = "y"
    /\ current_screen' = "Main"
    /\ pc' = "loop"
    /\ popup_event' = Handled(key)
    /\ UNCHANGED <<untouched, search_mode, exit, selected, text, paging, files>>

\* the characters that Normal mode binds to a command
BoundChars == {"q", "G", "g", "/", "c", "s", "k", "j"}

\* a prompt that takes q for the command of Normal mode
KeyTextBound_quits(key) ==
    /\ Main("Insert") /\ key \in BoundChars
    /\ Len(search_input) < MaxInput
    /\ search_input' = Append(search_input, key)
    /\ current_screen' = IF key = "q" THEN "ConfirmExit" ELSE current_screen
    /\ pc' = "loop"
    /\ popup_event' = Handled(key)
    /\ UNCHANGED <<untouched, search_mode, exit, selected, search, paging, files>>

\* Main/Insert, a character that Normal mode binds to a command:
\* search_input.handle_event adds it to the value
KeyTextBound(key) ==
    /\ Main("Insert") /\ key \in BoundChars
    /\ Len(search_input) < MaxInput
    /\ search_input' = Append(search_input, key)
    /\ pc' = "loop"
    /\ popup_event' = Handled(key)
    /\ UNCHANGED <<untouched, screen, selected, search, paging, files>>

\* Tui::exit (ConfirmExit, y)
KeyExitYes(key) ==
    /\ pc = "event" /\ current_screen = "ConfirmExit" /\ key = "y"
    /\ exit' = TRUE
    /\ pc' = "loop"
    /\ popup_event' = Handled(key)
    /\ UNCHANGED <<untouched, current_screen, search_mode, selected, text, paging, files>>

\* an n that also puts the selection back on the first line
KeyExitNo_first_line(key) ==
    /\ pc = "event" /\ current_screen = "ConfirmExit" /\ key = "n"
    /\ current_screen' = "Main"
    /\ selected' = Some(0)
    /\ pc' = "loop"
    /\ popup_event' = Handled(key)
    /\ UNCHANGED <<untouched, search_mode, exit, text, paging, files>>

\* ConfirmExit, n
KeyExitNo(key) ==
    /\ pc = "event" /\ current_screen = "ConfirmExit" /\ key = "n"
    /\ current_screen' = "Main"
    /\ pc' = "loop"
    /\ popup_event' = Handled(key)
    /\ UNCHANGED <<untouched, search_mode, exit, selected, text, paging, files>>

\* an n that leaves an empty file behind
KeySaveNo_creates(key) ==
    /\ pc = "event" /\ current_screen = "ConfirmSave" /\ key = "n"
    /\ current_screen' = "Main"
    /\ popup_filename' = <<>>
    /\ disk' = disk \cup {[name |-> last_saved_filename, bytes |-> <<>>]}
    /\ pc' = "loop"
    /\ popup_event' = Handled(key)
    /\ UNCHANGED <<untouched, search_mode, exit, selected, text, paging,
                   last_saved_filename, now, last_save>>

\* ConfirmSave, n
KeySaveNo(key) ==
    /\ pc = "event" /\ current_screen = "ConfirmSave" /\ key = "n"
    /\ current_screen' = "Main"
    /\ popup_filename' = <<>>
    /\ pc' = "loop"
    /\ popup_event' = Handled(key)
    /\ UNCHANGED <<untouched, search_mode, exit, selected, text, paging,
                   last_saved_filename, now, disk, last_save>>

\* ConfirmExit and ConfirmSave, a key with no binding
KeyUnboundConfirm(key) ==
    /\ pc = "event" /\ current_screen \in {"ConfirmExit", "ConfirmSave"}
    /\ key \in Keys \ {"y", "n", "Release"}
    /\ pc' = "loop"
    /\ popup_event' = Handled(key)
    /\ UNCHANGED <<untouched, tui, files>>

\* the bytes that fmt::Display for Entry writes for the k first entries of the cache
Written(cache, k) == Concat([i \in 1..k |-> cache[i].content])

\* File::create and the writes: the file name holds bytes, whatever it held before
Put(files_on_disk, name, bytes) ==
    {f \in files_on_disk : f.name # name} \cup {[name |-> name, bytes |-> bytes]}

\* where the writes of n entries may stop: at the first write!, at the last one, or
\* nowhere (all n entries written)
WriteStops(n) == {k \in 0..n : k = 0 \/ k >= n - 1}

\* Tui::save_to_file (ConfirmSave, y). created: File::create returned Ok; k: the
\* entries written before write! returned Err, all of them when it never did
save_to_file(key) ==
    /\ pc = "event" /\ current_screen = "ConfirmSave" /\ key = "y"
    /\ last_save.n < MaxSaves
    /\ \E created \in BOOLEAN, k \in WriteStops(Len(entries_cache)) :
          /\ created => last_saved_filename # <<>>
          /\ ~created => k = 0
          /\ disk' = IF created THEN Put(disk, last_saved_filename, Written(entries_cache, k))
                     ELSE disk
          /\ current_screen' = IF created /\ k < Len(entries_cache) THEN current_screen
                               ELSE "Main"
          /\ popup_filename' = IF created /\ k < Len(entries_cache) THEN popup_filename
                               ELSE <<>>
          /\ last_save' = [made |-> TRUE, n |-> last_save.n + 1,
                           name |-> last_saved_filename, created |-> created,
                           ok |-> ~created \/ k = Len(entries_cache),
                           cache |-> entries_cache, popup |-> popup_filename]
    /\ pc' = "loop"
    /\ popup_event' = Handled(key)
    /\ UNCHANGED <<untouched, search_mode, exit, selected, text, paging,
                   last_saved_filename, now>>

handle_key_event(key) ==
    \/ KeyRelease(key)
    \/ KeyQuit(key) \/ nav_last_line(key) \/ nav_first_line(key) \/ KeySearch(key)
    \/ KeyClear(key) \/ KeySave(key) \/ nav_prev_line(key) \/ nav_next_line(key)
    \/ nav_next_line_wraps(key) \/ nav_next_line_panics(key)
    \/ nav_prev_page(key) \/ nav_next_page(key) \/ KeyUnboundMain(key)
    \/ KeyCommit(key) \/ KeyCancel(key) \/ KeyText(key)
    \/ KeyExitYes(key) \/ KeyExitNo(key)
    \/ save_to_file(key) \/ KeySaveNo(key) \/ KeyUnboundConfirm(key)

Next ==
    \/ Reload \/ NoReload \/ Terminate
    \/ DrawMain \/ DrawConfirmExit \/ DrawConfirmSave
    \/ RunFails
    \/ \E key \in Keys : handle_key_event(key)

Spec == InitViewer /\ [][Next]_vars

\* the steps of run between two key events that do not load: the loop condition and
\* the render
Progress ==
    \/ NoReload \/ Terminate
    \/ DrawMain \/ DrawConfirmExit \/ DrawConfirmSave

\* the change of pc by the step of run that loads; Reload is the one step with it
LoadStep == pc = "loop" /\ ~exit /\ page_reload /\ calls < MaxLoads /\ pc' = "draw"

\* the bundles of the viewer that is left: one whose first load fails at the archive
\* and leaves an empty window over a cache of two pages, and one without any failure
QuitBundles ==
    {Bundle(Line10 \o Line09, Line11, FALSE, Line09, TRUE, FALSE),
     Bundle(Line10Unterminated, Line11, FALSE, Line09, FALSE, FALSE)}

InitQuit == InitViewer /\ bundle \in QuitBundles

\* the viewer on a terminal that draws and reads without error, for as long as run has
\* not failed: the steps of Next that do not end run by an error, and a page key only
\* while a load is within MaxLoads
NextQuit ==
    \/ Reload \/ Progress
    \/ \E key \in Keys :
          \/ KeyRelease(key)
          \/ KeyQuit(key) \/ nav_last_line(key) \/ nav_first_line(key) \/ KeySearch(key)
          \/ KeyClear(key) \/ KeySave(key) \/ nav_prev_line(key) \/ nav_next_line(key)
          \/ nav_next_line_wraps(key) \/ KeyUnboundMain(key)
          \/ KeyCommit(key) \/ KeyCancel(key) \/ KeyText(key)
          \/ KeyExitYes(key) \/ KeyExitNo(key)
          \/ save_to_file(key) \/ KeySaveNo(key) \/ KeyUnboundConfirm(key)
    \/ \E key \in Keys : calls < MaxLoads /\ nav_prev_page(key)
    \/ \E key \in Keys : calls < MaxLoads /\ nav_next_page(key)

\* run goes on from one statement to the next, and the user who wants to leave comes to
\* press Esc at the search prompt, n at the save prompt, q on the Main screen and y at
\* the exit prompt
SpecQuit ==
    /\ InitQuit /\ [][NextQuit]_vars
    /\ WF_pc(LoadStep) /\ WF_vars(Progress)
    /\ SF_vars(KeyCancel("Esc")) /\ SF_vars(KeySaveNo("n"))
    /\ SF_vars(KeyQuit("q")) /\ SF_vars(KeyExitYes("y"))

\* the keys of the user at the search prompt: the characters and the cursor keys that
\* Normal mode binds to commands, and the keys that close the prompt
PromptKeys == BoundChars \cup CursorKeys \cup {"Enter", "Esc"}

InitPrompt == InitViewer /\ bundle \in QuitBundles

\* the viewer under the keys of PromptKeys, each of them handled in every screen and mode
NextPrompt ==
    \/ Reload \/ NoReload \/ DrawMain \/ DrawConfirmExit \/ DrawConfirmSave \/ RunFails
    \/ \E key \in PromptKeys :
          \/ KeyQuit(key) \/ nav_last_line(key) \/ nav_first_line(key) \/ KeySearch(key)
          \/ KeyClear(key) \/ KeySave(key) \/ nav_prev_line(key) \/ nav_next_line(key)
          \/ nav_next_line_wraps(key) \/ nav_next_line_panics(key)
          \/ nav_prev_page(key) \/ nav_next_page(key) \/ KeyUnboundMain(key)
          \/ KeyCommit(key) \/ KeyCancel(key) \/ KeyText(key) \/ KeyTextBound(key)
          \/ KeyUnboundConfirm(key)

SpecPrompt == InitPrompt /\ [][NextPrompt]_vars

\* ------------------------------------------------------------------ properties
\* cache order of an adjacent pair: both undated, or a not after b, or only a dated
InOrder(a, b) ==
    \/ a.timestamp.kind = "None" /\ b.timestamp.kind = "None"
    \/ a.timestamp.kind = "Some" /\ b.timestamp.kind = "Some"
       /\ ~LexLess(b.timestamp.t, a.timestamp.t)
    \/ a.timestamp.kind = "Some" /\ b.timestamp.kind = "None"

\* C1: in every state of the viewer, every adjacent pair of the cache is in cache
\* order: both entries undated, or the first not after the second, or only the first
\* dated.
C1_CacheOrdered ==
    \A i \in 1..(Len(entries_cache) - 1) : InOrder(entries_cache[i], entries_cache[i + 1])

\* cache[offset : min(offset + limit, len(cache))]
Clamped(cache, offset, limit) ==
    [k \in 1..(Min(offset + limit, Len(cache)) - Min(offset, Len(cache))) |->
        cache[Min(offset, Len(cache)) + k]]

\* C2, as claimed: every search call, whatever the cache, the offset and the limit,
\* returns Ok with the window cache[offset : min(offset + limit, len(cache))].
C2_AlwaysOkWithWindow ==
    last_call.made =>
        /\ last_call.ok
        /\ entries_offset = Clamped(entries_cache, last_call.offset, last_call.limit)

\* C2, amended: a search call that returns Ok returns the window
\* cache[offset : min(offset + limit, len(cache))] of the cache it leaves, empty when
\* offset >= len(cache); a call returns Err only when the cache it was handed was
\* empty and the keyword is no regular expression or the tree walk failed.
C2_WindowUnlessWalkFails ==
    last_call.made =>
        IF last_call.ok
        THEN entries_offset = Clamped(entries_cache, last_call.offset, last_call.limit)
        ELSE /\ last_call.before = <<>>
             /\ entries_offset = <<>>
             /\ last_call.walked \/ ~ValidPattern(keyword)

\* C2, witness: a call with a positive limit and an offset beyond the end of a
\* non-empty cache returned Ok with an empty window.
C2_OffsetBeyondEnd ==
    /\ last_call.made /\ last_call.ok
    /\ entries_cache # <<>> /\ last_call.offset > Len(entries_cache)
    /\ last_call.limit > 0
    /\ entries_offset = <<>>

\* C3: every entry of the cache has a content that contains the keyword, read as
\* plain text, as a case-sensitive substring.
C3_ContentContainsKeyword ==
    \A i \in 1..Len(entries_cache) : Contains(entries_cache[i].content, keyword)

\* the lines of a file as BufRead::lines yields them: without their terminators
FileLines(bytes) ==
    [i \in 1..Len(SplitLines(bytes)) |-> WithoutTerminator(SplitLines(bytes)[i])]

\* C4: after a save that created the file and wrote every entry, the file has as many
\* lines as the cache has entries, and line N is the content of entry N.
C4_SavedLinesAreEntries ==
    last_save.made /\ last_save.created /\ last_save.ok =>
        \E f \in disk :
            /\ f.name = last_save.name
            /\ FileLines(f.bytes) = [i \in 1..Len(last_save.cache) |->
                                        WithoutTerminator(last_save.cache[i].content)]

\* C5: the level is decided by the first of the four rules that matches the line:
\* level=<token> gives the token, else "level":"<token>" gives the token, else err=
\* or, case-insensitively, [error] gives "error", else the level is UNKNOWN.
C5_LowestRuleDecides ==
    fn_ret # <<>> =>
        fn_ret[1] =
            IF \E i \in 1..Len(fn_arg) : Level1At(fn_arg, i) # <<>>
            THEN LET i == MinOf({k \in 1..Len(fn_arg) : Level1At(fn_arg, k) # <<>>})
                 IN  Slice(fn_arg, i + 6, RunEnd(fn_arg, i + 6, Whitespace \cup {"="}))
            ELSE IF \E i \in 1..Len(fn_arg) : Level2At(fn_arg, i) # <<>>
            THEN LET i == MinOf({k \in 1..Len(fn_arg) : Level2At(fn_arg, k) # <<>>})
                 IN  Slice(fn_arg, i + 9, RunEnd(fn_arg, i + 9, {"\"", ":"}))
            ELSE IF Level3Matches(fn_arg) \/ Level4Matches(fn_arg) THEN L_error
            ELSE L_UNKNOWN

\* C5, witness: a line that holds level=info and, after it, err= was classified info.
C5_LevelBeforeErr ==
    /\ fn_ret = <<F_info>>
    /\ Level3Matches(fn_arg)
    /\ \E i \in 1..Len(fn_arg) : Level1At(fn_arg, i) # <<>>

\* C6: when the RFC3339 pattern matches anywhere in the line, the result is the parse
\* of its leftmost match, wherever the zone-less pattern matches; when only the
\* zone-less pattern matches, the result is the parse of its leftmost match, its
\* fields taken as UTC; when neither matches, the result is Ok(None).
C6_FirstPatternDecides ==
    fn_ret # <<>> =>
        IF \E i \in 1..Len(fn_arg) : Timestamp1At(fn_arg, i) # <<>>
        THEN \E i \in 1..Len(fn_arg) :
                /\ Timestamp1At(fn_arg, i) # <<>>
                /\ \A j \in 1..(i - 1) : Timestamp1At(fn_arg, j) = <<>>
                /\ fn_ret[1] = ParseDateTime(Slice(fn_arg, i, Timestamp1At(fn_arg, i)[2]))
        ELSE IF \E i \in 1..Len(fn_arg) : Timestamp2At(fn_arg, i) # <<>>
        THEN \E i \in 1..Len(fn_arg) :
                /\ Timestamp2At(fn_arg, i) # <<>>
                /\ \A j \in 1..(i - 1) : Timestamp2At(fn_arg, j) = <<>>
                /\ fn_ret[1] = ParseDateTime(Slice(fn_arg, i, i + 23))
        ELSE fn_ret[1] = NoTimestamp

\* C6, witness: a line whose zone-less time of 11:00 comes before its RFC3339 time of
\* 10:00 got the time 10:00.
C6_Rfc3339AfterNaive ==
    /\ fn_ret # <<>>
    /\ \E i, j \in 1..Len(fn_arg) :
          i < j /\ Timestamp2At(fn_arg, i) # <<>> /\ Timestamp1At(fn_arg, j) # <<>>
    /\ fn_ret[1] = [kind |-> "Some", t |-> <<2025, 12, 30, 10, 0, 0, 0>>]

\* C7: no entry of the cache has a path below <root>/yamls.
C7_YamlsNeverSearched ==
    \A i \in 1..Len(entries_cache) :
        ~StartsAt(entries_cache[i].path, Join(sbpath, N_yamls) \o <<"/">>, 1)

\* the segments of a path: its maximal pieces without a "/"
SegmentsOf(path) ==
    {Slice(path, b[1], b[2]) :
        b \in {c \in (1..Len(path)) \X (2..(Len(path) + 1)) :
                 /\ c[1] < c[2]
                 /\ c[1] = 1 \/ path[c[1] - 1] = "/"
                 /\ c[2] = Len(path) + 1 \/ path[c[2]] = "/"
                 /\ \A k \in c[1]..(c[2] - 1) : path[k] # "/"}}

\* C8: included_path is true exactly for the root, <root>/logs, <root>/nodes and the
\* paths with a segment named logs.
C8_IncludedExactly ==
    fn_ret # <<>> =>
        fn_ret[1] = (\/ fn_arg.dir = fn_arg.root_dir
                     \/ fn_arg.dir = fn_arg.root_dir \o P_logs
                     \/ fn_arg.dir = fn_arg.root_dir \o P_nodes
                     \/ N_logs \in SegmentsOf(fn_arg.dir))

\* C9: of the search calls on one cache, only the first runs the tree walk, also when
\* every call returns Ok and no line of the bundle matches the keyword.
C9_WalkAtMostOnce ==
    oks = calls => walks <= 1 /\ (calls >= 2 => ~last_call.walked)

\* C10: a non-empty cache has seen a search call return Ok, and a search call that
\* returned Err left the cache empty.
C10_NonEmptyAfterOk ==
    /\ entries_cache # <<>> => oks >= 1
    /\ last_call.made /\ ~last_call.ok => entries_cache = <<>>

\* C11: after every page load the viewer's page count is at least 1.
C11_PageFinalAtLeastOne ==
    last_call.made => page_final >= 1

\* C12: with a non-empty cache of n entries and the page loaded, the page count is
\* ceil(n / PageSize), a page before the last shows PageSize entries and the last
\* page shows n - (page_final - 1) * PageSize entries.
C12_PageWindows ==
    last_call.made /\ ~page_reload /\ entries_cache # <<>> =>
        /\ page_final = div_ceil(Len(entries_cache), PageSize)
        /\ Len(entries_offset) = IF page_goto < page_final THEN PageSize
                                 ELSE Len(entries_cache) - (page_final - 1) * PageSize

\* C13: a search on a populated cache leaves the cache as it was, and when it repeats
\* the offset and limit of the call before it, which returned a window, it returns the
\* same window.
C13_RepeatedSearch ==
    [][calls' = calls + 1 /\ entries_cache # <<>> =>
          /\ entries_cache' = entries_cache
          /\ last_call'.ok
          /\ (/\ last_call.ok
              /\ last_call'.offset = last_call.offset
              /\ last_call'.limit = last_call.limit) => entries_offset' = entries_offset]_vars

\* three calls made, the last one on the cache the call before it had already found
\* populated, with a window that is not empty
C13_ThirdCallOnCache ==
    /\ calls = 3 /\ oks = 3
    /\ last_call.before # <<>> /\ entries_cache = last_call.before
    /\ entries_offset # <<>>

\* the key the cache is sorted by: entries of one key are ties
SameKey(a, b) ==
    \/ a.timestamp.kind = "None" /\ b.timestamp.kind = "None"
    \/ /\ a.timestamp.kind = "Some" /\ b.timestamp.kind = "Some"
       /\ a.timestamp.t = b.timestamp.t

\* C14: the cache a successful walk leaves is the discovery order sorted stably: dated
\* entries ascending, undated entries after every dated one, and the entries of one
\* key (one timestamp, or no timestamp) in the order the walk discovered them.
C14_StableSort ==
    last_call.made /\ last_call.walked /\ last_call.ok =>
        \A d \in {search_tree(sbpath, keyword, bundle, sbpath).entries} :
            /\ Len(entries_cache) = Len(d)
            /\ \A i, j \in 1..Len(entries_cache) :
                  i < j =>
                      /\ entries_cache[i].timestamp.kind = "None"
                            => entries_cache[j].timestamp.kind = "None"
                      /\ entries_cache[j].timestamp.kind = "Some"
                            => ~LexLess(entries_cache[j].timestamp.t,
                                        entries_cache[i].timestamp.t)
            /\ \A k \in 1..Len(d) :
                  LET Tie(e) == SameKey(e, d[k])
                  IN  SelectSeq(entries_cache, Tie) = SelectSeq(d, Tie)

\* a sorted cache with a dated entry in front of two different undated entries
C14_UndatedTiesBehindDated ==
    /\ last_call.made /\ last_call.walked /\ last_call.ok
    /\ \E i, j \in 1..Len(entries_cache) :
          /\ 1 < i /\ i < j
          /\ entries_cache[1].timestamp.kind = "Some"
          /\ entries_cache[i].timestamp.kind = "None"
          /\ entries_cache[j].timestamp.kind = "None"
          /\ entries_cache[i] # entries_cache[j]

\* the directories and files of a bundle
RECURSIVE Nodes(_)
Nodes(node) ==
    {node} \cup UNION {Nodes(node.children[i]) : i \in 1..Len(node.children)}

\* every directory of the bundle can be listed
DirsReadable(tree) == \A n \in Nodes(tree) : n.kind = "dir" => ~n.bad

\* every file of the bundle can be opened and has the four bytes is_zip reads
FilesReadable(tree) ==
    \A n \in Nodes(tree) : n.kind = "file" => ~n.bad /\ Len(n.bytes) >= 4

\* every archive of the bundle can be opened, and so can each of its entries
ArchivesSound(tree) ==
    \A n \in Nodes(tree) :
        n.kind = "file" => ~n.corrupt /\ \A i \in 1..Len(n.members) : ~n.members[i].bad

\* C15: a walk whose only failures are files that cannot be read skips those files
\* and the search returns Ok.
C15_UnreadableFileSkipped ==
    /\ last_call.made /\ last_call.walked
    /\ DirsReadable(bundle) /\ ArchivesSound(bundle)
    => last_call.ok

\* C16: a walk whose only failures are archives that cannot be opened, or entries of
\* them that cannot be read, skips those and the search returns Ok.
C16_CorruptArchiveSkipped ==
    /\ last_call.made /\ last_call.walked
    /\ DirsReadable(bundle) /\ FilesReadable(bundle)
    => last_call.ok

\* C17: once y was handled on the ConfirmSave screen the screen is Main and the loop
\* of run goes on, whether the save succeeded or failed.
C17_MainAfterSave ==
    popup_event = [key |-> "y", screen |-> "ConfirmSave"] =>
        current_screen = "Main" /\ pc = "loop"

\* C18: the file name a confirmed save uses is the name the ConfirmSave popup showed
\* when the screen was entered.
C18_SavedUnderNameFirstShown ==
    last_save.made => last_save.name = last_save.popup

\* C19: exit changes only in the step of y on the ConfirmExit screen, which sets it;
\* once it is set the one step left is the end of the loop of run.
C19_ExitOnlyByYes ==
    [][/\ exit' # exit => KeyExitYes("y")
       /\ exit => pc = "loop" /\ pc' = "done"]_vars

\* run has ended after y on the ConfirmExit screen
C19_ExitedAfterYes ==
    /\ exit /\ pc = "done"
    /\ popup_event = [key |-> "y", screen |-> "ConfirmExit"]

\* C20: on the ConfirmExit screen n gives the Main screen in Normal mode with exit
\* false and the page, selection, filter and cache as they were; an event other than
\* y and n changes nothing of the viewer.
C20_ExitDeclined ==
    [][pc = "event" /\ current_screen = "ConfirmExit" /\ pc' = "loop"
       /\ popup_event'.key # "y" =>
          IF popup_event'.key = "n"
          THEN /\ current_screen' = "Main" /\ search_mode' = "Normal" /\ exit' = FALSE
               /\ UNCHANGED <<selected, text, paging, cached, last_saved_filename>>
          ELSE UNCHANGED <<tui, cached, last_saved_filename>>]_vars

\* n was handled on the ConfirmExit screen with a filter committed and the selection
\* off the first line, and both are as they were
C20_BackOnMainWithFilter ==
    /\ popup_event = [key |-> "n", screen |-> "ConfirmExit"]
    /\ current_screen = "Main" /\ search_mode = "Normal" /\ ~exit
    /\ search # <<>> /\ selected = Some(1)

\* C21: the page number stays within 1..max(1, page_final). Left on page 1 and Right
\* on the final page change neither the page nor the reload flag; Left on a later page
\* takes one from the page and Right on an earlier page adds one, and both set the
\* reload flag.
C21_PageWithinRange ==
    [][/\ 1 <= page_goto' /\ page_goto' <= (IF page_final' > 1 THEN page_final' ELSE 1)
       /\ nav_prev_page("Left") =>
             IF page_goto = 1 THEN UNCHANGED <<page_goto, page_reload>>
             ELSE page_goto' = page_goto - 1 /\ page_reload'
       /\ nav_next_page("Right") =>
             IF page_goto >= page_final THEN UNCHANGED <<page_goto, page_reload>>
             ELSE page_goto' = page_goto + 1 /\ page_reload']_vars

\* the second of two pages is shown, reached by Right, and Left was pressed on it
C21_BackFromLastPage ==
    /\ page_final = 2 /\ page_goto = 1 /\ page_reload
    /\ calls = 2 /\ last_call.offset = PageSize

\* the entries of the cache on page page: cache[(page - 1) * P : min(page * P, len)]
PageOf(cache, page) ==
    SubSeq(cache, (page - 1) * PageSize + 1, Min(page * PageSize, Len(cache)))

\* C22: at every render the reload flag is clear and the window shown is the page of
\* the cache at the current page number; a load after the first one has not walked
\* the tree.
C22_WindowAtRender ==
    pc = "draw" =>
        /\ ~page_reload
        /\ entries_offset = PageOf(entries_cache, page_goto)
        /\ calls >= 2 => ~last_call.walked

\* C23: on a page with entries Down and j move the selection from i to i + 1 and keep
\* it on the last line, Up and k move it from i to i - 1 and keep it on line 0; the
\* selection stays on the page, and the page and the reload flag are as before.
C23_LineMoves ==
    [][\A key \in {"Down", "j", "Up", "k"} :
          /\ entries_offset # <<>> /\ selected # None
          /\ nav_next_line(key) \/ nav_prev_line(key)
          => /\ selected' = Some(IF key \in {"Down", "j"}
                                 THEN (IF selected[1] < Len(entries_offset) - 1
                                       THEN selected[1] + 1 ELSE selected[1])
                                 ELSE (IF selected[1] > 0
                                       THEN selected[1] - 1 ELSE selected[1]))
             /\ UNCHANGED <<page_goto, page_reload>>]_vars

\* the selection is on the last line of a page of PageSize entries, below line 0
C23_OnLastLine ==
    /\ pc = "loop" /\ current_screen = "Main" /\ ~page_reload
    /\ Len(entries_offset) = PageSize
    /\ selected = Some(PageSize - 1)

\* C24: g selects index 0; G selects index window length - 1, and leaves the selection
\* alone on an empty page; the page and the reload flag are as before.
C24_FirstAndLastLine ==
    [][/\ nav_first_line("g") =>
             selected' = Some(0) /\ UNCHANGED <<page_goto, page_reload>>
       /\ nav_last_line("G") =>
             /\ selected' = IF entries_offset = <<>> THEN selected
                            ELSE Some(Len(entries_offset) - 1)
             /\ UNCHANGED <<page_goto, page_reload>>]_vars

\* the last line of the second page is selected, which is not the last index of the
\* cache
C24_LastLineOfSecondPage ==
    /\ pc = "loop" /\ current_screen = "Main" /\ ~page_reload
    /\ page_goto = 2 /\ entries_offset # <<>>
    /\ selected = Some(Len(entries_offset) - 1)
    /\ selected # Some(0)

\* C25: Enter at the search prompt makes the text buffer the filter and the mode
\* Normal; the screen is Main and the page, the selection and the cache are as before.
C25_EnterCommits ==
    [][pc = "event" /\ popup_event' = [key |-> "Enter", screen |-> "Main"] =>
          /\ search' = search_input
          /\ search_mode' = "Normal" /\ current_screen' = "Main"
          /\ UNCHANGED <<paging, selected, cached>>]_vars

\* Enter was handled and committed a filter that is not empty
C25_FilterCommitted ==
    /\ popup_event = [key |-> "Enter", screen |-> "Main"]
    /\ search # <<>> /\ search = search_input
    /\ search_mode = "Normal" /\ current_screen = "Main"

\* C26: Esc at the search prompt empties the text buffer and the filter, a filter
\* committed by an earlier Enter too, and makes the mode Normal.
C26_EscClears ==
    [][pc = "event" /\ popup_event' = [key |-> "Esc", screen |-> "Main"] =>
          /\ search' = <<>> /\ search_input' = <<>>
          /\ search_mode' = "Normal"]_vars

\* Esc was handled at the search prompt on the second page: the buffer and the filter
\* are empty and the mode is Normal
C26_CommittedFilterGone ==
    /\ popup_event = [key |-> "Esc", screen |-> "Main"]
    /\ search = <<>> /\ search_input = <<>> /\ search_mode = "Normal"
    /\ page_goto = 2

\* C27: the keys of the filter (/, text edits, Enter, Esc, c) leave the cache, the
\* window, the page number and page_final as they were.
C27_FilterShowsSameEntries ==
    [][\/ KeySearch("/") \/ KeyClear("c")
       \/ (pc = "event" /\ popup_event'.screen = "Main")
       => UNCHANGED <<entries_cache, entries_offset, page_goto, page_final>>]_vars

\* a filter was committed on the second page, and the window is still that page
C27_FilterOnSecondPage ==
    /\ popup_event = [key |-> "Enter", screen |-> "Main"]
    /\ search # <<>> /\ page_goto = 2 /\ ~page_reload
    /\ entries_offset # <<>>
    /\ entries_offset = PageOf(entries_cache, 2)

\* C28: n on the ConfirmSave screen gives the Main screen, writes no file and leaves
\* the cache, the page, the selection and the filter as they were; the ConfirmSave
\* screen is entered by s in Main/Normal only.
C28_SaveDeclined ==
    [][/\ pc = "event" /\ popup_event' = [key |-> "n", screen |-> "ConfirmSave"] =>
             /\ current_screen' = "Main"
             /\ UNCHANGED <<disk, cached, paging, selected, text>>
       /\ current_screen # "ConfirmSave" /\ current_screen' = "ConfirmSave" =>
             KeySave("s")]_vars

\* n was handled on the ConfirmSave screen after the popup showed a file name, and no
\* file was written
C28_BackOnMainNothingWritten ==
    /\ popup_event = [key |-> "n", screen |-> "ConfirmSave"]
    /\ current_screen = "Main"
    /\ last_saved_filename # <<>> /\ disk = {} /\ ~last_save.made

\* the texts of the bundle below the directory node at path dir, each with the path
\* an Entry of it is to carry: a plain file under its own path, an entry of an archive
\* under the path of the archive joined with the name of the entry; dir is the
\* directory that holds the file or the archive
RECURSIVE Sources(_, _)
Sources(node, dir) ==
    UNION {LET child == node.children[i]
               path == Join(dir, child.name)
           IN  IF child.kind = "dir" THEN Sources(child, path)
               ELSE IF child.kind # "file" THEN {}
               ELSE IF Len(child.bytes) >= 4 /\ SubSeq(child.bytes, 1, 4) = ZipSignature
               THEN {[path |-> Join(path, child.members[k].name),
                      bytes |-> child.members[k].bytes, dir |-> dir] :
                        k \in 1..Len(child.members)}
               ELSE {[path |-> path, bytes |-> child.bytes, dir |-> dir]} :
           i \in 1..Len(node.children)}

\* the lines of a text that hold the keyword, in the order of the text
MatchingLines(bytes, pattern) ==
    LET Matches(line) == matcher_keyword(line, pattern)
    IN  SelectSeq(SplitLines(bytes), Matches)

\* the entry the rules of level and timestamp give for a line found at path
EntryOf(line, path) ==
    [content |-> line, level |-> find_log_level(line), path |-> path,
     timestamp |-> IF find_timestamp(line).kind = "Some" THEN find_timestamp(line)
                   ELSE [kind |-> "None"]]

C30_BadDateKeepsEntry ==
    last_call.made /\ last_call.walked
    /\ DirsReadable(bundle) /\ FilesReadable(bundle) /\ ArchivesSound(bundle) =>
        /\ last_call.ok
        /\ \A src \in Sources(bundle, sbpath) :
              included_path(sbpath, src.dir) =>
                  \A k \in 1..Len(MatchingLines(src.bytes, keyword)) :
                      \E i \in 1..Len(entries_cache) :
                          /\ entries_cache[i].content = MatchingLines(src.bytes, keyword)[k]
                          /\ entries_cache[i].path = src.path
        /\ \A i \in 1..Len(entries_cache) :
              entries_cache[i].timestamp =
                  IF find_timestamp(entries_cache[i].content).kind = "Err"
                  THEN [kind |-> "None"]
                  ELSE find_timestamp(entries_cache[i].content)

\* the cache holds the entry of a line whose timestamp text does not parse, without a
\* timestamp, and behind it in the same file a line with its timestamp
C30_BadDateEntryInCache ==
    /\ last_call.made /\ last_call.ok
    /\ \E i, j \in 1..Len(entries_cache) :
          /\ entries_cache[i].content = LineBadDate
          /\ entries_cache[i].timestamp = [kind |-> "None"]
          /\ entries_cache[j].content = Line11
          /\ entries_cache[j].path = entries_cache[i].path
          /\ entries_cache[j].timestamp.kind = "Some"

\* C31: when rule 1 applies the level is the whole token behind the first level= that
\* has one, up to the next whitespace character.
C31_Rule1WholeToken ==
    fn_ret # <<>> /\ FindLevel1(fn_arg) # <<>> =>
        fn_ret[1] = Slice(fn_arg, FindLevel1(fn_arg)[1] + Len(T_level_eq),
                          FindLevel1(fn_arg)[2])

\* C32: when rule 1 does not apply and rule 2 does, the level is the value between the
\* quotes of the first "level":"value".
C32_Rule2QuotedValue ==
    fn_ret # <<>> /\ FindLevel1(fn_arg) = <<>> /\ FindLevel2(fn_arg) # <<>> =>
        fn_ret[1] = Slice(fn_arg, FindLevel2(fn_arg)[1] + Len(T_level_json),
                          FindLevel2(fn_arg)[2] - 1)

\* the directories of the root that are searched and cannot be read
UnreadableChildren ==
    {i \in 1..Len(bundle.children) :
        /\ bundle.children[i].kind = "dir" /\ bundle.children[i].bad
        /\ included_path(sbpath, Join(sbpath, bundle.children[i].name))}

\* path starts with the path dir
Below(dir, path) == Len(path) >= Len(dir) /\ SubSeq(path, 1, Len(dir)) = dir

\* C33: a walk that comes to a searched directory it cannot read makes search return
\* Err with no window, and nothing that the walk would visit after that directory has
\* an entry in the cache.
C33_DirectoryFailureIsFatal ==
    last_call.made /\ last_call.walked /\ UnreadableChildren # {} =>
        /\ ~last_call.ok
        /\ entries_offset = <<>>
        /\ \A k \in 1..Len(entries_cache) :
              \E j \in 1..(MinOf(UnreadableChildren) - 1) :
                  Below(Join(sbpath, bundle.children[j].name), entries_cache[k].path)

\* the walk failed at the unreadable directory logs, and yamls, which a walk from this
\* root would search after it, has no entry in the cache
C33_WalkEndedAtLogs ==
    /\ last_call.made /\ last_call.walked /\ ~last_call.ok
    /\ UnreadableChildren = {1}
    /\ included_path(sbpath, Join(sbpath, N_yamls))
    /\ keyword = <<"a", "b">>
    /\ entries_cache = <<>> /\ entries_offset = <<>>

\* every file of the bundle can be opened
FilesOpen(tree) == \A n \in Nodes(tree) : n.kind = "file" => ~n.bad

\* C37: a walk over a bundle whose files can all be opened, some of them shorter than
\* four bytes, returns Ok.
C37_ShortFileIsPlain ==
    /\ last_call.made /\ last_call.walked
    /\ DirsReadable(bundle) /\ ArchivesSound(bundle) /\ FilesOpen(bundle)
    => last_call.ok

\* C34: the search mode is Insert only on the Main screen, and a step that takes the
\* mode to Insert is the / of Main/Normal, which leaves the text buffer empty.
C34_InsertOnlyOnMain ==
    /\ search_mode = "Insert" => current_screen = "Main"
    /\ [][/\ search_mode' = "Insert" => current_screen' = "Main"
          /\ search_mode # "Insert" /\ search_mode' = "Insert" =>
                KeySearch("/") /\ search_input' = <<>>]_vars

\* the prompt opened by / over a committed filter: Insert on Main, the buffer empty
C34_PromptOpenedOverFilter ==
    /\ pc = "loop" /\ search_mode = "Insert" /\ current_screen = "Main"
    /\ search = <<"a">> /\ search_input = <<>>

\* C36: the viewer never fails in nav_next_line, and the selected index never exceeds
\* max(0, window length - 1); on an empty window it stays 0.
C36_DownOnEmptyWindow ==
    /\ pc # "panicked"
    /\ selected # None =>
          selected[1] <= (IF entries_offset = <<>> THEN 0 ELSE Len(entries_offset) - 1)

\* C38: whenever the Main screen is about to be rendered with a window that is not
\* empty, the selected index is an index of the window.
C38_SelectionInsideWindow ==
    pc = "draw" /\ current_screen = "Main" /\ entries_offset # <<>> /\ selected # None =>
        selected[1] < Len(entries_offset)

\* the Main screen about to be rendered on the final page, which is shorter than a full
\* page, with the selection on its first line
C38_ShortFinalPageRendered ==
    /\ pc = "draw" /\ current_screen = "Main"
    /\ page_goto = 2 /\ page_final = 2
    /\ Len(entries_offset) = 1 /\ Len(entries_offset) < PageSize
    /\ selected = Some(0)

\* the key of the way out that the viewer takes when it waits for a key
QuitKeyTaken ==
    IF current_screen = "ConfirmExit" THEN ENABLED KeyExitYes("y")
    ELSE IF current_screen = "ConfirmSave" THEN ENABLED KeySaveNo("n")
    ELSE IF search_mode = "Insert" THEN ENABLED KeyCancel("Esc")
    ELSE ENABLED KeyQuit("q")

\* C39: the keys Esc (search prompt), n (save prompt), q (Main) and y (exit prompt),
\* pressed whenever the viewer waits for them, bring every run of the viewer, from
\* whatever state it has reached, to the exit flag and to the end of the loop. The
\* viewer that waits for a key takes the key of its screen and mode; Esc and n lead to
\* Main/Normal, q from there to the exit prompt, y from there to the exit flag; and a
\* step taken with the exit flag set is the end of the loop, no render and no read.
C39_QuitFromEverywhere ==
    /\ <>(exit /\ pc = "done")
    /\ [](pc = "event" => QuitKeyTaken)
    /\ [][/\ KeyCancel("Esc") \/ KeySaveNo("n") =>
                current_screen' = "Main" /\ search_mode' = "Normal" /\ ~exit'
          /\ KeyQuit("q") => current_screen' = "ConfirmExit" /\ ~exit'
          /\ KeyExitYes("y") => exit'
          /\ exit => pc = "loop" /\ pc' = "done"]_vars

\* run has ended by y at the exit prompt, after a save that failed with a write error
C39_LeftAfterFailedSave ==
    /\ pc = "done" /\ exit
    /\ popup_event = [key |-> "y", screen |-> "ConfirmExit"]
    /\ last_save.made /\ ~last_save.ok

\* C35: a key other than Enter and Esc handled in Main/Insert leaves the screen, the
\* search mode, the exit flag, the page number, the reload flag, the selection, the
\* committed filter and the cache as they were.
C35_PromptKeysOnlyEdit ==
    [][Main("Insert") /\ popup_event' = [key |-> "other", screen |-> "Main"] =>
          UNCHANGED <<current_screen, search_mode, exit, page_goto, page_reload,
                      selected, search, entries_cache>>]_vars

\* q has been typed at the prompt, on the second page, over a committed filter: it is
\* in the text buffer and the viewer is where it was
C35_TypedQuitKey ==
    /\ pc = "loop" /\ popup_event = [key |-> "other", screen |-> "Main"]
    /\ current_screen = "Main" /\ search_mode = "Insert" /\ ~exit
    /\ search_input = <<"q">> /\ search = <<"j">>
    /\ page_goto = 2 /\ ~page_reload /\ selected = Some(0)

====
